---- MODULE Spec2Model ----
(***************************************************************************)
(* Model of lm_eval/models/vllm_causallms.py (class VLLM): the three       *)
(* harness operations loglikelihood, loglikelihood_rolling and             *)
(* generate_until, the scoring helper _parse_logprobs, the reasoning split *)
(* applied to generated text, the replica fan-out of _model_generate, the  *)
(* windows of one rolling request and the truncation of one scoring input. *)
(*                                                                         *)
(* One behaviour is one call.  Init chooses the operation (op), the        *)
(* configuration fixed at construction (batch_size, max_length, the engine *)
(* weights) and the request list; the actions are the steps of the call.   *)
(* Strings are sequences of one-character strings, token sequences and     *)
(* prompt contexts are sequences of integers, log-probabilities are        *)
(* integers (their sum is exact).                                          *)
(***************************************************************************)
EXTENDS Integers, Sequences, FiniteSets, TLC

VARIABLES
    op,            \* the operation this call runs
    pc,            \* position of the call: "start", "batches", "done", "raised"
    batch_size,    \* self.batch_size: [auto |-> TRUE] or a fixed [auto |-> FALSE, n |-> k]
    max_length,    \* self.max_length
    engine,        \* the engine's weights: which deterministic model answers
    data_parallel_size,  \* self.data_parallel_size: the number of replicas
    requests,      \* the harness request list of the call
    chunks,        \* batches not yet processed (sequences of request positions)
    reorder,       \* Collator._reorder_indices: the permutation recorded at reordering
    res,           \* res: results in processing order
    stats,         \* stats: auxiliary metadata in processing order (generate_until)
    all_windows,   \* all_windows of loglikelihood_rolling: (request_idx, window) pairs
    all_nlls,      \* all_nlls of loglikelihood_rolling: (request_idx, answer) pairs
    engine_calls,  \* every call issued to the inference engine, in order
    parse_calls,   \* every call of _parse_logprobs, in order
    cache,         \* every cache_hook.add_partial call, in order
    ret,           \* the value returned to the harness
    error,         \* the exception that ended the call, "" if none
    p_in           \* input of the pure-function checks (_parse_logprobs, reasoning split)

vars == <<op, pc, batch_size, max_length, engine, data_parallel_size, requests,
          chunks, reorder, res, stats, all_windows, all_nlls, engine_calls,
          parse_calls, cache, ret, error, p_in>>

----------------------------------------------------------------------------
(* Bounds of the model *)

MaxReqs == 3
MaxParseLen == 3
MaxTextLen == 6
MaxFanout == 7
MaxWindowText == 5
MaxEncLen == 3

(* Program constants *)

_DEFAULT_MAX_GEN_TOKENS == 2048

----------------------------------------------------------------------------
(* Generic helpers: Python list semantics *)

Min(a, b) == IF a <= b THEN a ELSE b
Max(a, b) == IF a >= b THEN a ELSE b

\* s[k:] of Python, k possibly negative
PySliceFrom(s, k) ==
    LET start == IF k >= 0 THEN Min(k, Len(s)) ELSE Max(Len(s) + k, 0)
    IN  SubSeq(s, start + 1, Len(s))

\* s[:k] of Python, k possibly negative
PySliceTo(s, k) ==
    LET stop == IF k >= 0 THEN Min(k, Len(s)) ELSE Max(Len(s) + k, 0)
    IN  SubSeq(s, 1, stop)

RECURSIVE SeqSum(_)
SeqSum(s) == IF s = <<>> THEN 0 ELSE Head(s) + SeqSum(Tail(s))

RECURSIVE Flatten(_)
Flatten(ss) == IF ss = <<>> THEN <<>> ELSE Head(ss) \o Flatten(Tail(ss))

Range(s) == {s[i] : i \in DOMAIN s}

\* all sequences over S of length lo..hi
SeqsOf(S, lo, hi) == UNION {[1..n -> S] : n \in lo..hi}

\* Python tuple comparison a < b on sequences of integers
TupleLess(a, b) ==
    \/ \E k \in 1..Min(Len(a), Len(b)) :
          /\ \A j \in 1..(k - 1) : a[j] = b[j]
          /\ a[k] < b[k]
    \/ /\ Len(a) < Len(b)
       /\ \A j \in 1..Len(a) : a[j] = b[j]

\* the None of Python where a sequence or a key is expected
None == [none |-> TRUE]

IsNone(x) == x.none

----------------------------------------------------------------------------
(* Tokenization Adapter.  The tokenizer is a collaborator; it is modelled  *)
(* as a character-level tokenizer without special tokens.                  *)

Chars == {"a", "b", " "}

CharTok(c) == CASE c = "a" -> 1 [] c = "b" -> 2 [] c = " " -> 3

\* self.eot_token_id (tokenizer.eos_token_id)
eot_token_id == 0

\* self.prefix_token_id: no custom prefix and no BOS token, so the EOS token
prefix_token_id == eot_token_id

\* tok_encode(string) with add_bos_token False and no left truncation
tok_encode(string) == [i \in 1..Len(string) |-> CharTok(string[i])]

\* str.rstrip() / str.strip(): whitespace is the space character
RECURSIVE RStrip(_)
RStrip(s) ==
    IF s # <<>> /\ s[Len(s)] = " " THEN RStrip(SubSeq(s, 1, Len(s) - 1)) ELSE s

RECURSIVE LStrip(_)
LStrip(s) == IF s # <<>> /\ Head(s) = " " THEN LStrip(Tail(s)) ELSE s

\* self.fix_text = lambda x: x.strip()
fix_text(s) == LStrip(RStrip(s))

\* VLLM._encode_pair
_encode_pair(context, continuation) ==
    LET n_spaces == Len(context) - Len(RStrip(context))
        cont2 == IF n_spaces > 0
                 THEN PySliceFrom(context, -n_spaces) \o continuation
                 ELSE continuation
        ctx2 == IF n_spaces > 0 THEN PySliceTo(context, -n_spaces) ELSE context
        whole_enc == tok_encode(ctx2 \o cont2)
        context_enc == tok_encode(ctx2)
    IN  [ctx |-> context_enc, cont |-> PySliceFrom(whole_enc, Len(context_enc))]

\* the body of the loop of VLLM.loglikelihood: one element of new_reqs
EncodeRequest(r) ==
    LET enc == IF r.context = <<>>
               THEN [ctx |-> <<eot_token_id>>, cont |-> tok_encode(r.continuation)]
               ELSE _encode_pair(r.context, r.continuation)
    IN  [key |-> [none |-> FALSE, context |-> r.context,
                  continuation |-> r.continuation],
         ctx |-> enc.ctx, cont |-> enc.cont]

\* new_reqs of VLLM.loglikelihood
NewReqs(reqs) == [i \in 1..Len(reqs) |-> EncodeRequest(reqs[i])]

----------------------------------------------------------------------------
(* Stable Batch Reordering Engine (lm_eval.models.utils.Collator).        *)
(* A sort key is [n |-> negative length, t |-> tuple of integers].         *)

KeyLess(k1, k2) == k1.n < k2.n \/ (k1.n = k2.n /\ TupleLess(k1.t, k2.t))

\* position j is processed before position i: groups in order of first
\* occurrence, within a group ascending sort key, ties in input order
ProcessedBefore(keys, grps, j, i) ==
    LET first(x) == CHOOSE f \in 1..x :
                        grps[f] = grps[x] /\ \A g \in 1..(f - 1) : grps[g] # grps[x]
    IN  \/ first(j) < first(i)
        \/ /\ grps[j] = grps[i]
           /\ \/ KeyLess(keys[j], keys[i])
              \/ (~KeyLess(keys[i], keys[j]) /\ j < i)

\* the permutation applied by the reordering (Collator._reorder_indices)
ReorderIndices(keys, grps) ==
    LET n == Len(keys)
        rank(i) == 1 + Cardinality({j \in 1..n : ProcessedBefore(keys, grps, j, i)})
    IN  [k \in 1..n |-> CHOOSE i \in 1..n : rank(i) = k]

\* Collator.get_batched(n): slices of n positions, never across two groups;
\* n = 0 gives one batch per group
RECURSIVE GetBatched(_, _, _, _)
GetBatched(order, grps, n, cur) ==
    IF order = <<>>
    THEN IF cur = <<>> THEN <<>> ELSE <<cur>>
    ELSE LET i == Head(order)
             close == /\ cur # <<>>
                      /\ \/ grps[i] # grps[cur[1]]
                         \/ (n > 0 /\ Len(cur) = n)
         IN  IF close
             THEN <<cur>> \o GetBatched(Tail(order), grps, n, <<i>>)
             ELSE GetBatched(Tail(order), grps, n, Append(cur, i))

\* Collator.get_original(newarr): the inverse of the recorded permutation
GetOriginal(order, newarr) ==
    [i \in 1..Len(order) |-> newarr[CHOOSE k \in 1..Len(order) : order[k] = i]]

\* n handed to get_batched: int(self.batch_size) if self.batch_size != "auto" else 0
BatchN(bs) == IF bs.auto THEN 0 ELSE bs.n

----------------------------------------------------------------------------
(* Inference engine, scoring mode (SamplingParams(temperature=0,           *)
(* prompt_logprobs=1, max_tokens=1)).  At temperature 0 the engine is a    *)
(* function of its input.  A distribution is a Python dict in iteration    *)
(* order: a sequence of [tok, lp] entries with distinct tokens; it holds   *)
(* the realized token and the top-1 candidate.  The first entry of         *)
(* prompt_logprobs is None.                                                *)

Engines == {1, 2}

Dict(items) == [none |-> FALSE, items |-> items]

\* engine 1 ranks every realized token first; engine 2 prefers another token
\* wherever the realized token is 1
EngineDist(e, inp, i) ==
    IF e = 2 /\ inp[i] = 1
    THEN Dict(<<[tok |-> 1, lp |-> -(i + 1)], [tok |-> 2, lp |-> -1]>>)
    ELSE Dict(<<[tok |-> inp[i], lp |-> -(inp[i] + i)]>>)

\* one RequestOutput of llm.generate in scoring mode
EngineScore(e, inp) ==
    [prompt_logprobs |-> [i \in 1..Len(inp) |->
                             IF i = 1 THEN None ELSE EngineDist(e, inp, i)]]

\* llm.generate(prompt_token_ids=requests, sampling_params) of one engine
LLMGenerate(e, inputs) == [k \in 1..Len(inputs) |-> EngineScore(e, inputs[k])]

\* more_itertools.distribute(n, iterable): n children, the item at 0-based
\* position i goes to child i mod n
distribute(n, iterable) ==
    [k \in 1..n |->
        [j \in 1..((Len(iterable) + n - k) \div n) |-> iterable[(j - 1) * n + k]]]

\* lm_eval.models.utils.undistribute(results): the replicas' results taken
\* round by round, one from every replica that still has one
undistribute(results) ==
    LET n == Len(results)
        longest == IF n = 0 THEN 0
                   ELSE CHOOSE m \in {Len(results[k]) : k \in 1..n} :
                            \A k \in 1..n : Len(results[k]) <= m
        grid == [j \in 1..(longest * n) |->
                    [round |-> ((j - 1) \div n) + 1, replica |-> ((j - 1) % n) + 1]]
        kept == SelectSeq(grid, LAMBDA g : g.round <= Len(results[g.replica]))
    IN  [i \in 1..Len(kept) |-> results[kept[i].replica][kept[i].round]]

\* the engine calls of one _model_generate: one llm.generate per replica on
\* its partition, or the single call of self.model
ModelGenerateCalls(dps, inputs) ==
    IF dps > 1 THEN distribute(dps, inputs) ELSE <<inputs>>

\* the replicas' results laid end to end
_model_generate_flat(e, dps, inputs) ==
    IF dps > 1
    THEN Flatten([k \in 1..dps |-> LLMGenerate(e, distribute(dps, inputs)[k])])
    ELSE LLMGenerate(e, inputs)

\* VLLM._model_generate(requests=inputs, generate=False): with
\* data_parallel_size > 1 distribute, run every replica (ray.get returns the
\* results in the order of the replicas), undistribute
_model_generate(e, dps, inputs) ==
    IF dps > 1
    THEN undistribute([k \in 1..dps |-> LLMGenerate(e, distribute(dps, inputs)[k])])
    ELSE LLMGenerate(e, inputs)

----------------------------------------------------------------------------
(* Output Decomposition, scoring path: VLLM._parse_logprobs *)

\* zip(a, b)
Zip(a, b) == [k \in 1..Min(Len(a), Len(b)) |-> [token |-> a[k], logprob_dict |-> b[k]]]

HasKey(d, tok) == \E k \in 1..Len(d.items) : d.items[k].tok = tok

\* logprob_dict.get(token) for a token the dict holds
DictGet(d, tok) == d.items[CHOOSE k \in 1..Len(d.items) : d.items[k].tok = tok].lp

\* the first key of the dict, whatever its value
TopTokenFirstKey(d) == d.items[1].tok

\* max(logprob_dict, key=logprob_dict.get): the first key, in iteration
\* order, of maximal value
TopToken(d) ==
    LET k == CHOOSE k \in 1..Len(d.items) :
                 /\ \A j \in 1..Len(d.items) : d.items[j].lp <= d.items[k].lp
                 /\ \A j \in 1..(k - 1) : d.items[j].lp < d.items[k].lp
    IN  d.items[k].tok

\* the slices taken one position early
ContinuationPairsEarly(tokens, dicts, ctxlen) ==
    Zip(PySliceFrom(tokens, ctxlen - 1), PySliceFrom(dicts, ctxlen - 1))

\* the positions _parse_logprobs reads: zip(tokens[ctxlen:], dicts[ctxlen:])
ContinuationPairs(tokens, dicts, ctxlen) ==
    Zip(PySliceFrom(tokens, ctxlen), PySliceFrom(dicts, ctxlen))

\* the is_greedy loop of _parse_logprobs
RECURSIVE IsGreedy(_)
IsGreedy(pairs) ==
    IF pairs = <<>> THEN TRUE
    ELSE LET d == Head(pairs).logprob_dict
         IN  IF (~IsNone(d)) /\ d.items # <<>> /\ TopToken(d) # Head(pairs).token
             THEN FALSE
             ELSE IsGreedy(Tail(pairs))

\* _parse_logprobs(tokens, outputs, ctxlen).  raised: the sum calls .get on a
\* None entry (AttributeError) or adds the None of a missing token (TypeError)
_parse_logprobs(tokens, outputs, ctxlen) ==
    LET pairs == ContinuationPairs(tokens, outputs.prompt_logprobs, ctxlen)
        bad == \E k \in 1..Len(pairs) :
                   \/ IsNone(pairs[k].logprob_dict)
                   \/ ~HasKey(pairs[k].logprob_dict, pairs[k].token)
    IN  IF bad
        THEN [raised |-> TRUE, continuation_logprobs |-> 0, is_greedy |-> FALSE]
        ELSE [raised |-> FALSE,
              continuation_logprobs |->
                  SeqSum([k \in 1..Len(pairs) |->
                             DictGet(pairs[k].logprob_dict, pairs[k].token)]),
              is_greedy |-> IsGreedy(pairs)]

\* the (float, bool) pair handed back
Answer(r) == [logprob |-> r.continuation_logprobs, is_greedy |-> r.is_greedy]

----------------------------------------------------------------------------
(* VLLM._loglikelihood_tokens.  reqs is its requests argument: a sequence  *)
(* of [key, ctx, cont]; a chunk is a sequence of positions of reqs.        *)

\* _collate(x)
_collate(x) == [n |-> -Len(x.ctx \o x.cont), t |-> x.ctx \o x.cont]

\* re_ord = Collator(requests, sort_fn=_collate): no grouping
LLOrder(reqs) ==
    ReorderIndices([i \in 1..Len(reqs) |-> _collate(reqs[i])],
                   [i \in 1..Len(reqs) |-> 0])

LLChunks(reqs, bs) ==
    GetBatched(LLOrder(reqs), [i \in 1..Len(reqs) |-> 0], BatchN(bs), <<>>)

\* inp = (context_enc + continuation_enc)[-(self.max_length):]
LLInput(x, ml) == PySliceFrom(x.ctx \o x.cont, -ml)

\* ctxlen left at len(context_enc), whatever was cut off
LLCtxlenUntruncated(x, ml) == Len(x.ctx)

\* ctxlen = len(context_enc) - max(0, len(context_enc) + len(continuation_enc) - max_length)
LLCtxlen(x, ml) == Len(x.ctx) - Max(0, Len(x.ctx) + Len(x.cont) - ml)

\* the cache write made whatever the key
LLCacheWritesAlways(key, answer) ==
    <<[name |-> "loglikelihood", key |-> key, value |-> answer]>>

\* the cache write of one answer: if cache_key is not None
LLCacheWrites(key, answer) ==
    IF ~IsNone(key)
    THEN <<[name |-> "loglikelihood", key |-> key, value |-> answer]>>
    ELSE <<>>

\* the second loop of one chunk, from element k on: parse, append, cache.
\* The loop stops at the element whose _parse_logprobs raises.
RECURSIVE ChunkLoop(_, _, _, _, _, _)
ChunkLoop(reqs, chunk, ml, outputs, k, acc) ==
    IF k > Len(chunk) THEN acc
    ELSE LET x == reqs[chunk[k]]
             ctxlen == LLCtxlen(x, ml)
             inp == LLInput(x, ml)
             r == _parse_logprobs(inp, outputs[k], ctxlen)
             called == Append(acc.parse_calls,
                              [tokens |-> inp, outputs |-> outputs[k],
                               ctxlen |-> ctxlen, pos |-> chunk[k]])
         IN  IF r.raised
             THEN [acc EXCEPT !.parse_calls = called, !.raised = TRUE]
             ELSE ChunkLoop(reqs, chunk, ml, outputs, k + 1,
                      [acc EXCEPT !.parse_calls = called,
                                  !.res = Append(acc.res, Answer(r)),
                                  !.cache = acc.cache \o LLCacheWrites(x.key, Answer(r))])

\* the body of "for chunk in chunks" for one chunk
ProcessChunk(reqs, chunk, ml, e, dps) ==
    LET inputs == [k \in 1..Len(chunk) |-> LLInput(reqs[chunk[k]], ml)]
        outputs == _model_generate(e, dps, inputs)
        loop == ChunkLoop(reqs, chunk, ml, outputs, 1,
                    [res |-> <<>>, cache |-> <<>>, parse_calls |-> <<>>,
                     raised |-> FALSE])
    IN  [calls |-> ModelGenerateCalls(dps, inputs), res |-> loop.res,
         cache |-> loop.cache,
         parse_calls |-> loop.parse_calls, raised |-> loop.raised]

\* the effects of one more chunk c added to those of the chunks before it
MergeChunk(acc, c) ==
    [engine_calls |-> acc.engine_calls \o c.calls,
     res |-> acc.res \o c.res,
     cache |-> acc.cache \o c.cache,
     parse_calls |-> acc.parse_calls \o c.parse_calls,
     raised |-> c.raised]

\* "for chunk in chunks" of a whole call, as made by loglikelihood_rolling
\* for one batch of windows; the loop ends at a chunk that raises
RECURSIVE RunChunks(_, _, _, _, _, _)
RunChunks(reqs, cs, ml, e, dps, acc) ==
    IF cs = <<>> \/ acc.raised THEN acc
    ELSE RunChunks(reqs, Tail(cs), ml, e, dps,
                   MergeChunk(acc, ProcessChunk(reqs, Head(cs), ml, e, dps)))

\* what a call leaves behind and returns: re_ord.get_original(res)
LLResult(order, run) ==
    [engine_calls |-> run.engine_calls, cache |-> run.cache,
     parse_calls |-> run.parse_calls, raised |-> run.raised,
     ret |-> IF run.raised THEN <<>> ELSE GetOriginal(order, run.res)]

_loglikelihood_tokens(reqs, bs, ml, e, dps) ==
    LLResult(LLOrder(reqs),
             RunChunks(reqs, LLChunks(reqs, bs), ml, e, dps,
                 [engine_calls |-> <<>>, res |-> <<>>, cache |-> <<>>,
                  parse_calls |-> <<>>, raised |-> FALSE]))

----------------------------------------------------------------------------
(* Sliding Window Segmenter (lm_eval.utils.get_rolling_token_windows and   *)
(* make_disjoint_window).  A pair is [inp |-> input window, pred |->        *)
(* prediction window].                                                      *)

\* the windows after the first one, predicted tokens so far given
RECURSIVE LaterWindows(_, _, _, _)
LaterWindows(token_list, max_seq_len, pred_len, predicted) ==
    IF predicted >= Len(token_list) THEN <<>>
    ELSE LET window_pred_len == Min(Len(token_list) - predicted, pred_len)
             window_end == predicted + window_pred_len
         IN  <<[inp |-> SubSeq(token_list, window_end - max_seq_len, window_end - 1),
                pred |-> SubSeq(token_list, window_end - window_pred_len + 1,
                                window_end)]>>
             \o LaterWindows(token_list, max_seq_len, pred_len, window_end)

get_rolling_token_windows(token_list, prefix_token, max_seq_len, context_len) ==
    IF token_list = <<>> THEN <<>>
    ELSE LET pred_len == max_seq_len - context_len + 1
             first_seq_len == Min(max_seq_len, Len(token_list))
         IN  <<[inp |-> <<prefix_token>> \o SubSeq(token_list, 1, first_seq_len - 1),
                pred |-> SubSeq(token_list, 1, first_seq_len)]>>
             \o LaterWindows(token_list, max_seq_len, pred_len, first_seq_len)

\* make_disjoint_window(pair): a[: len(a) - (len(b) - 1)], b
make_disjoint_window(pair) ==
    [inp |-> PySliceTo(pair.inp, Len(pair.inp) - (Len(pair.pred) - 1)),
     pred |-> pair.pred]

----------------------------------------------------------------------------
(* VLLM.loglikelihood_rolling *)

\* the windows cut with max_seq_len = self.max_length
RequestWindowsFullLength(string, ml) ==
    LET rolling == get_rolling_token_windows(tok_encode(string), prefix_token_id,
                                             ml, 1)
    IN  [k \in 1..Len(rolling) |->
            [key |-> None,
             ctx |-> make_disjoint_window(rolling[k]).inp,
             cont |-> make_disjoint_window(rolling[k]).pred]]

\* windows of one request: (None,) + x for each disjoint rolling window
RequestWindows(string, ml) ==
    LET rolling == get_rolling_token_windows(tok_encode(string), prefix_token_id,
                                             ml - 1, 1)
    IN  [k \in 1..Len(rolling) |->
            [key |-> None,
             ctx |-> make_disjoint_window(rolling[k]).inp,
             cont |-> make_disjoint_window(rolling[k]).pred]]

\* all_windows: (req_idx, window) for every window of every request, in order
RECURSIVE AllWindows(_, _, _)
AllWindows(reqs, ml, req_idx) ==
    IF req_idx > Len(reqs) THEN <<>>
    ELSE LET w == RequestWindows(reqs[req_idx], ml)
         IN  [k \in 1..Len(w) |-> [req_idx |-> req_idx, window |-> w[k]]]
             \o AllWindows(reqs, ml, req_idx + 1)

\* request_window_counts
RequestWindowCounts(reqs, ml) ==
    [i \in 1..Len(reqs) |-> Len(RequestWindows(reqs[i], ml))]

\* for i in range(0, len(all_windows), batch_size): the slices [i : i + batch_size]
RECURSIVE RangeSlices(_, _, _)
RangeSlices(i, n, step) ==
    IF i > n THEN <<>>
    ELSE <<[k \in 1..Min(step, n - i + 1) |-> i + k - 1]>>
         \o RangeSlices(i + step, n, step)

\* the reconstruction loop without current_idx += window_count
RECURSIVE ReconstructNoAdvance(_, _, _)
ReconstructNoAdvance(counts, nlls, current_idx) ==
    IF counts = <<>> THEN <<>>
    ELSE LET request_nlls == SubSeq(nlls, current_idx + 1,
                                    Min(current_idx + Head(counts), Len(nlls)))
         IN  <<SeqSum([k \in 1..Len(request_nlls) |-> request_nlls[k].nll.logprob])>>
             \o ReconstructNoAdvance(Tail(counts), nlls, current_idx)

\* the reconstruction loop: per request, the sum of the next window_count
\* entries of all_nlls
RECURSIVE Reconstruct(_, _, _)
Reconstruct(counts, nlls, current_idx) ==
    IF counts = <<>> THEN <<>>
    ELSE LET request_nlls == SubSeq(nlls, current_idx + 1,
                                    Min(current_idx + Head(counts), Len(nlls)))
             request_total ==
                 SeqSum([k \in 1..Len(request_nlls) |-> request_nlls[k].nll.logprob])
         IN  <<request_total>>
             \o Reconstruct(Tail(counts), nlls, current_idx + Head(counts))

\* the cache writes of the reconstruction loop
RollingCacheWrites(reqs, loglikelihoods) ==
    [i \in 1..Len(reqs) |->
        [name |-> "loglikelihood_rolling",
         key |-> [none |-> FALSE, string |-> reqs[i]],
         value |-> loglikelihoods[i]]]

----------------------------------------------------------------------------
(* Output Decomposition, generation path: the reasoning split of           *)
(* generate_until.  THINK stands for the literal '</think>': like it, it   *)
(* begins and ends with different characters, so two occurrences cannot    *)
(* overlap.                                                                 *)

THINK == <<"<", ">">>

\* an occurrence of sub in s starting at 1-based position k
OccursAt(s, sub, k) ==
    /\ k >= 1
    /\ k + Len(sub) - 1 <= Len(s)
    /\ SubSeq(s, k, k + Len(sub) - 1) = sub

\* sub in s
Contains(s, sub) == \E k \in 1..Len(s) : OccursAt(s, sub, k)

\* s.find(sub): 0-based index of the first occurrence, -1 if none
find(s, sub) ==
    IF Contains(s, sub)
    THEN (CHOOSE k \in 1..Len(s) :
              OccursAt(s, sub, k) /\ \A j \in 1..(k - 1) : ~OccursAt(s, sub, j)) - 1
    ELSE -1

\* the first occurrence taken for the last
rfindFirst(s, sub) == find(s, sub)

\* s.rfind(sub): 0-based index of the last occurrence, -1 if none
rfind(s, sub) ==
    IF Contains(s, sub)
    THEN (CHOOSE k \in 1..Len(s) :
              OccursAt(s, sub, k) /\ \A j \in (k + 1)..Len(s) : ~OccursAt(s, sub, j)) - 1
    ELSE -1

\* the split of one response text s: the returned text and the stat entries
\* 'reasoning' (None when absent)
SplitReasoning(s) ==
    IF Contains(s, THINK)
    THEN [s |-> fix_text(PySliceFrom(s, rfind(s, THINK) + Len(THINK))),
          reasoning |-> [none |-> FALSE,
                         v |-> fix_text(PySliceTo(s, rfind(s, THINK) + Len(THINK)))]]
    ELSE [s |-> s, reasoning |-> None]

----------------------------------------------------------------------------
(* Inference engine, generation mode (llm.chat) *)

\* eos = self.tokenizer.decode(self.eot_token_id)
eos == "<eos>"

\* the text the engine generates for a conversation: derived from the last
\* user turn, so that different requests get different texts.  Engine 1
\* answers without reasoning and with surrounding whitespace, engine 2
\* reasons twice before it answers.
EngineText(e, conversation) ==
    LET q == conversation[Len(conversation)].content
    IN  IF e = 1
        THEN <<" ">> \o q \o <<" ">>
        ELSE <<"a">> \o THINK \o q \o THINK \o <<" ">> \o q

\* one RequestOutput of llm.chat: the prompt it was given and one candidate
EngineChat(e, conversation) ==
    [prompt |-> conversation, outputs |-> <<[text |-> EngineText(e, conversation)]>>]

\* VLLM.modify_gen_kwargs: do_sample is popped; do_sample False without a
\* temperature sets temperature 0
modify_gen_kwargs(kwargs) ==
    [temperature |->
        IF IsNone(kwargs.temperature) /\ (~IsNone(kwargs.do_sample))
           /\ kwargs.do_sample.v = FALSE
        THEN [none |-> FALSE, v |-> 0]
        ELSE kwargs.temperature]

\* the SamplingParams built by VLLM._model_chat(generate=True): max_tokens
\* and stop are arguments of _model_chat
ChatSamplingParams(max_tokens, stop, kwargs) ==
    [max_tokens |-> _DEFAULT_MAX_GEN_TOKENS,
     stop |-> None,
     temperature |-> modify_gen_kwargs(kwargs).temperature]

\* the call VLLM._model_chat issues to the engine
ChatCall(conversations, max_tokens, stop, kwargs) ==
    [messages |-> conversations,
     sampling_params |-> ChatSamplingParams(max_tokens, stop, kwargs)]

\* VLLM._model_chat: the outputs of self.model.chat
_model_chat(e, conversations) ==
    [k \in 1..Len(conversations) |-> EngineChat(e, conversations[k])]

----------------------------------------------------------------------------
(* VLLM.generate_until.  A request is [context, ctx_data, gen_kwargs];     *)
(* gen_kwargs is [is_dict, until, max_gen_toks, do_sample, temperature],   *)
(* the last four None when the key is absent.                              *)

\* handle_stop_sequences(until, eos) of lm_eval.models.utils
handle_stop_sequences(until, e) ==
    LET lst == IF IsNone(until) THEN <<>> ELSE until.v
    IN  IF e \in Range(lst) THEN lst ELSE Append(lst, e)

\* _collate_gen(_requests): -len(context), context
_collate_gen(x) == [n |-> -Len(x.context), t |-> x.context]

\* a Collator built without grouping, as _loglikelihood_tokens builds its own
GenGroupByNone == "none"

\* group_by of the Collator built by generate_until
GenGroupBy == "gen_kwargs"

\* the group of every request under a group_by setting
GroupKeys(reqs, group_by) ==
    IF group_by = "gen_kwargs"
    THEN [i \in 1..Len(reqs) |-> reqs[i].gen_kwargs]
    ELSE [i \in 1..Len(reqs) |-> None]

\* re_ords = Collator(requests, _collate_gen, group_by="gen_kwargs")
GenOrder(reqs) ==
    ReorderIndices([i \in 1..Len(reqs) |-> _collate_gen(reqs[i])],
                   GroupKeys(reqs, GenGroupBy))

GenChunks(reqs, bs) ==
    GetBatched(GenOrder(reqs), GroupKeys(reqs, GenGroupBy), BatchN(bs), <<>>)

\* every generation_kwargs taken for a mapping
IsDictAlways(gen_kwargs) == TRUE

\* isinstance(gen_kwargs, dict)
IsDict(gen_kwargs) == gen_kwargs.is_dict

\* the conversation built from one ctx_data
Conversation(data) ==
    <<[role |-> "system", content |-> fix_text(data.description)]>>
    \o Flatten([k \in 1..Len(data.fewshots) |->
                   <<[role |-> "user", content |-> fix_text(data.fewshots[k].shot)],
                     [role |-> "assistant", content |-> fix_text(data.fewshots[k].ans)]>>])
    \o <<[role |-> "user", content |-> fix_text(data.example)]>>

\* until = handle_stop_sequences(kwargs.pop("until", None), eos=eos)
GenUntil(gen_kwargs) == handle_stop_sequences(gen_kwargs.until, eos)

\* self.max_gen_toks: the constructor's max_gen_toks, left at its default
max_gen_toks == _DEFAULT_MAX_GEN_TOKENS

\* max_gen_toks of the batch: kwargs.pop("max_gen_toks") or self.max_gen_toks
GenMaxGenToks(gen_kwargs) ==
    IF ~IsNone(gen_kwargs.max_gen_toks)
    THEN gen_kwargs.max_gen_toks.v
    ELSE max_gen_toks

\* the stat of one response
GenStat(resp) ==
    [reasoning |-> SplitReasoning(resp.outputs[1].text).reasoning,
     prompt |-> resp.prompt]

----------------------------------------------------------------------------
(* The inputs of a call *)

\* batch_size "auto" (n unused) or a fixed batch size
BatchSizes ==
    {[auto |-> TRUE, n |-> 0]} \cup {[auto |-> FALSE, n |-> k] : k \in {1, 2}}

MaxLengths == {2, 3}

\* loglikelihood: (context, continuation) strings
LLRequestTypes ==
    {[context |-> c, continuation |-> n] :
        c \in {<<>>, <<"a", " ">>, <<" ">>}, n \in {<<"a">>, <<"b", "a">>}}

\* loglikelihood_rolling: (string,)
RollingRequestTypes == {<<>>, <<"a">>, <<"a", "b">>, <<"b", "a", "a">>}

Some(v) == [none |-> FALSE, v |-> v]

\* generate_until: the generation_kwargs of a request that are mappings
GenKwargsTypes ==
    {[is_dict |-> TRUE, until |-> Some(<<"x">>), max_gen_toks |-> Some(5),
      do_sample |-> Some(FALSE), temperature |-> None],
     [is_dict |-> TRUE, until |-> None, max_gen_toks |-> None,
      do_sample |-> None, temperature |-> Some(1)]}

\* generation_kwargs that are not a mapping
GenKwargsNoDict ==
    [is_dict |-> FALSE, until |-> None, max_gen_toks |-> None,
     do_sample |-> None, temperature |-> None]

GenContexts == {<<1>>, <<2>>, <<1, 1>>}

IdChar == <<"1", "2", "3", "4", "5">>

\* the ctx_data of the request at position i: every request has its own example
CtxData(i) ==
    [description |-> <<" ", "d">>,
     fewshots |-> IF i = 1 THEN <<[shot |-> <<"s", " ">>, ans |-> <<"t">>]>> ELSE <<>>,
     example |-> <<"q", IdChar[i], " ">>]

\* (context, generation_kwargs) of a request
GenRequestTypes ==
    [context : GenContexts, gen_kwargs : GenKwargsTypes]
    \cup {[context |-> <<1>>, gen_kwargs |-> GenKwargsNoDict]}

GenRequestLists ==
    {[i \in 1..Len(f) |-> [context |-> f[i].context, ctx_data |-> CtxData(i),
                           gen_kwargs |-> f[i].gen_kwargs]] :
        f \in SeqsOf(GenRequestTypes, 0, MaxReqs)}

\* _parse_logprobs: token sequences, engine-shaped outputs (first entry None,
\* every dict holds the realized token and at most one other) and ctxlen >= 1
ParseTokens == {1, 2}

ParseLogprobValues == {-1, -2}

DistsFor(t) ==
    LET o == 3 - t
    IN  {Dict(<<[tok |-> t, lp |-> l]>>) : l \in ParseLogprobValues}
        \cup {Dict(<<[tok |-> t, lp |-> l1], [tok |-> o, lp |-> l2]>>) :
                 l1 \in ParseLogprobValues, l2 \in ParseLogprobValues}
        \cup {Dict(<<[tok |-> o, lp |-> l2], [tok |-> t, lp |-> l1]>>) :
                 l1 \in ParseLogprobValues, l2 \in ParseLogprobValues}

\* the prompt_logprobs the engine can return for tokens t
RECURSIVE PromptLogprobs(_)
PromptLogprobs(t) ==
    IF Len(t) = 1 THEN {<<None>>}
    ELSE {Append(p, d) : p \in PromptLogprobs(SubSeq(t, 1, Len(t) - 1)),
                         d \in DistsFor(t[Len(t)])}

\* the inputs of _parse_logprobs on the tokens t
ParseInputs(t) ==
    {[tokens |-> t, outputs |-> [prompt_logprobs |-> d], ctxlen |-> c] :
        d \in PromptLogprobs(t), c \in 1..Len(t)}

\* _model_generate: lists of up to MaxFanout token sequences
FanoutRequestTypes == {<<1>>, <<2, 1>>}

FanoutInputs == SeqsOf(FanoutRequestTypes, 0, MaxFanout)

\* data_parallel_size
ReplicaCounts == {1, 2, 3}

\* the windows of one request: strings of up to MaxWindowText characters
WindowStrings == SeqsOf({"a", "b"}, 0, MaxWindowText)

WindowMaxLengths == {2, 3, 4}

\* one element of a chunk of _loglikelihood_tokens: (cache_key, context_enc,
\* continuation_enc) with up to MaxEncLen tokens each, the continuation not
\* empty
EncodedRequests ==
    {[key |-> None, ctx |-> c, cont |-> n] :
        c \in SeqsOf({1, 2}, 0, MaxEncLen), n \in SeqsOf({1, 2}, 1, MaxEncLen)}

\* the reasoning split: every text up to MaxTextLen characters
TextChars == {" ", "a", "<", ">"}

SplitInputs == SeqsOf(TextChars, 0, MaxTextLen)

----------------------------------------------------------------------------
(* Initial states: one call, not yet started *)

InitCall(o, reqs, cfg, ml, e, pin) ==
    /\ op = o
    /\ pc = "start"
    /\ requests = reqs
    /\ batch_size = cfg.batch_size
    /\ data_parallel_size = cfg.data_parallel_size
    /\ max_length = ml
    /\ engine = e
    /\ p_in = pin
    /\ chunks = <<>>
    /\ reorder = <<>>
    /\ res = <<>>
    /\ stats = <<>>
    /\ all_windows = <<>>
    /\ all_nlls = <<>>
    /\ engine_calls = <<>>
    /\ parse_calls = <<>>
    /\ cache = <<>>
    /\ ret = None
    /\ error = ""

DefaultBatch == [auto |-> TRUE, n |-> 0]

\* the constructor: one engine with the batch size asked for, or
\* data_parallel_size > 1 replicas, which sets self.batch_size = "auto"
Configs ==
    {[batch_size |-> bs, data_parallel_size |-> 1] : bs \in BatchSizes}
    \cup {[batch_size |-> DefaultBatch, data_parallel_size |-> n] :
              n \in ReplicaCounts \ {1}}

DefaultConfig == [batch_size |-> DefaultBatch, data_parallel_size |-> 1]

\* one engine only: _model_chat calls self.model, which the constructor
\* creates only when data_parallel_size <= 1
OneEngineConfigs == {c \in Configs : c.data_parallel_size = 1}

\* max_length plays no part in generate_until, in the reasoning split or in
\* _parse_logprobs: those calls start with one value of it
Init ==
    \/ \E reqs \in SeqsOf(LLRequestTypes, 0, MaxReqs), cfg \in Configs,
          ml \in MaxLengths, e \in Engines :
          InitCall("loglikelihood", reqs, cfg, ml, e, None)
    \/ \E reqs \in SeqsOf(RollingRequestTypes, 0, MaxReqs), cfg \in Configs,
          ml \in MaxLengths, e \in Engines :
          InitCall("loglikelihood_rolling", reqs, cfg, ml, e, None)
    \/ \E reqs \in GenRequestLists, cfg \in OneEngineConfigs, e \in Engines :
          InitCall("generate_until", reqs, cfg, 3, e, None)
    \/ \E t \in SeqsOf(ParseTokens, 1, MaxParseLen) : \E pin \in ParseInputs(t) :
          InitCall("_parse_logprobs", <<>>, DefaultConfig, 3, 1, pin)
    \/ \E text \in SplitInputs :
          InitCall("split", <<>>, DefaultConfig, 3, 1, [text |-> text])
    \/ \E string \in WindowStrings, ml \in WindowMaxLengths :
          InitCall("windows", <<>>, DefaultConfig, ml, 1, [string |-> string])
    \/ \E x \in EncodedRequests, ml \in WindowMaxLengths :
          InitCall("truncate", <<>>, DefaultConfig, ml, 1, x)
    \/ \E inputs \in FanoutInputs, cfg \in Configs :
          InitCall("_model_generate", <<>>, cfg, 3, 1, [requests |-> inputs])

----------------------------------------------------------------------------
(* VLLM.loglikelihood *)

\* encode the requests, build the Collator and its batches
LLStart ==
    /\ op = "loglikelihood"
    /\ pc = "start"
    /\ reorder' = LLOrder(NewReqs(requests))
    /\ chunks' = LLChunks(NewReqs(requests), batch_size)
    /\ pc' = "batches"
    /\ UNCHANGED <<op, data_parallel_size, batch_size, max_length, engine,
                   requests, res, stats, all_windows, all_nlls, engine_calls,
                   parse_calls, cache, ret, error, p_in>>

\* one iteration of "for chunk in chunks": one engine call, then parse,
\* append and cache every answer of the chunk
LLChunk ==
    /\ op = "loglikelihood"
    /\ pc = "batches"
    /\ chunks # <<>>
    /\ LET c == ProcessChunk(NewReqs(requests), Head(chunks), max_length, engine,
                             data_parallel_size)
       IN  /\ engine_calls' = engine_calls \o c.calls
           /\ parse_calls' = parse_calls \o c.parse_calls
           /\ res' = res \o c.res
           /\ cache' = cache \o c.cache
           /\ IF c.raised
              THEN pc' = "raised" /\ error' = "AttributeError" /\ chunks' = chunks
              ELSE pc' = "batches" /\ error' = error /\ chunks' = Tail(chunks)
    /\ UNCHANGED <<op, data_parallel_size, batch_size, max_length, engine,
                   requests, reorder, stats, all_windows, all_nlls, ret, p_in>>

\* return re_ord.get_original(res)
LLReturn ==
    /\ op = "loglikelihood"
    /\ pc = "batches"
    /\ chunks = <<>>
    /\ ret' = GetOriginal(reorder, res)
    /\ pc' = "done"
    /\ UNCHANGED <<op, data_parallel_size, batch_size, max_length, engine,
                   requests, chunks, reorder, res, stats, all_windows, all_nlls,
                   engine_calls, parse_calls, cache, error, p_in>>

----------------------------------------------------------------------------
(* VLLM.loglikelihood_rolling *)

\* collect the windows of every request, then fix the batch size:
\* adaptive_batch_size or int(self.batch_size), where int("auto") raises
RollStart ==
    /\ op = "loglikelihood_rolling"
    /\ pc = "start"
    /\ all_windows' = AllWindows(requests, max_length, 1)
    /\ IF batch_size.auto /\ Len(requests) = 0
       THEN /\ pc' = "raised"
            /\ error' = "ValueError"
            /\ chunks' = <<>>
       ELSE /\ pc' = "batches"
            /\ error' = error
            /\ chunks' = RangeSlices(1, Len(all_windows'),
                             IF batch_size.auto THEN Len(requests) ELSE batch_size.n)
    /\ UNCHANGED <<op, data_parallel_size, batch_size, max_length, engine,
                   requests, reorder, res, stats, all_nlls, engine_calls,
                   parse_calls, cache, ret, p_in>>

\* one iteration of the batch loop: a whole _loglikelihood_tokens call on
\* the windows of the batch
RollBatch ==
    /\ op = "loglikelihood_rolling"
    /\ pc = "batches"
    /\ chunks # <<>>
    /\ LET batch == [k \in 1..Len(Head(chunks)) |-> all_windows[Head(chunks)[k]]]
           batch_windows == [k \in 1..Len(batch) |-> batch[k].window]
           call == _loglikelihood_tokens(batch_windows, batch_size, max_length,
                                         engine, data_parallel_size)
       IN  /\ engine_calls' = engine_calls \o call.engine_calls
           /\ parse_calls' = parse_calls \o call.parse_calls
           /\ cache' = cache \o call.cache
           /\ IF call.raised
              THEN /\ pc' = "raised"
                   /\ error' = "AttributeError"
                   /\ UNCHANGED <<chunks, all_nlls>>
              ELSE /\ pc' = "batches"
                   /\ error' = error
                   /\ chunks' = Tail(chunks)
                   /\ all_nlls' = all_nlls \o
                          [k \in 1..Len(batch) |->
                              [req_idx |-> batch[k].req_idx, nll |-> call.ret[k]]]
    /\ UNCHANGED <<op, data_parallel_size, batch_size, max_length, engine,
                   requests, reorder, res, stats, all_windows, ret, p_in>>

\* the reconstruction loop and the return
RollAggregate ==
    /\ op = "loglikelihood_rolling"
    /\ pc = "batches"
    /\ chunks = <<>>
    /\ LET loglikelihoods ==
               Reconstruct(RequestWindowCounts(requests, max_length), all_nlls, 0)
       IN  /\ cache' = cache \o RollingCacheWrites(requests, loglikelihoods)
           /\ res' = loglikelihoods
           /\ ret' = loglikelihoods
    /\ pc' = "done"
    /\ UNCHANGED <<op, data_parallel_size, batch_size, max_length, engine,
                   requests, chunks, reorder, stats, all_windows, all_nlls,
                   engine_calls, parse_calls, error, p_in>>

----------------------------------------------------------------------------
(* VLLM.generate_until *)

\* zip(*(req.args for req in requests)) unpacks into two names, which raises
\* on an empty list; otherwise build the Collator and its batches
GenStart ==
    /\ op = "generate_until"
    /\ pc = "start"
    /\ IF Len(requests) = 0
       THEN /\ pc' = "raised"
            /\ error' = "ValueError"
            /\ UNCHANGED <<reorder, chunks>>
       ELSE /\ pc' = "batches"
            /\ error' = error
            /\ reorder' = GenOrder(requests)
            /\ chunks' = GenChunks(requests, batch_size)
    /\ UNCHANGED <<op, data_parallel_size, batch_size, max_length, engine,
                   requests, res, stats, all_windows, all_nlls, engine_calls,
                   parse_calls, cache, ret, p_in>>

\* one iteration of "for chunk in chunks": build the conversations, unpack
\* the generation kwargs of the first request, one engine call, then split,
\* append and cache every response
GenChunk ==
    /\ op = "generate_until"
    /\ pc = "batches"
    /\ chunks # <<>>
    /\ LET chunk == Head(chunks)
           conversations ==
               [k \in 1..Len(chunk) |-> Conversation(requests[chunk[k]].ctx_data)]
           gen_kwargs == requests[chunk[1]].gen_kwargs
       IN  IF ~IsDict(gen_kwargs)
           THEN /\ pc' = "raised"
                /\ error' = "ValueError"
                /\ UNCHANGED <<chunks, res, stats, engine_calls, cache>>
           ELSE LET response == _model_chat(engine, conversations)
                IN  /\ engine_calls' =
                           Append(engine_calls,
                                  ChatCall(conversations, GenMaxGenToks(gen_kwargs),
                                           GenUntil(gen_kwargs), gen_kwargs))
                    /\ res' = res \o
                           [k \in 1..Len(chunk) |->
                               SplitReasoning(response[k].outputs[1].text).s]
                    /\ stats' = stats \o
                           [k \in 1..Len(chunk) |-> GenStat(response[k])]
                    /\ cache' = cache \o
                           [k \in 1..Len(chunk) |->
                               [name |-> "generate_until",
                                key |-> [none |-> FALSE,
                                         context |-> requests[chunk[k]].context,
                                         gen_kwargs |-> gen_kwargs],
                                value |-> SplitReasoning(response[k].outputs[1].text).s]]
                    /\ chunks' = Tail(chunks)
                    /\ pc' = "batches"
                    /\ error' = error
    /\ UNCHANGED <<op, data_parallel_size, batch_size, max_length, engine,
                   requests, reorder, all_windows, all_nlls, parse_calls, ret,
                   p_in>>

\* res = re_ords.get_original(res); stats = re_ords.get_original(stats);
\* return res, stats, {}
GenReturn ==
    /\ op = "generate_until"
    /\ pc = "batches"
    /\ chunks = <<>>
    /\ ret' = [res |-> GetOriginal(reorder, res), stats |-> GetOriginal(reorder, stats)]
    /\ pc' = "done"
    /\ UNCHANGED <<op, data_parallel_size, batch_size, max_length, engine,
                   requests, chunks, reorder, res, stats, all_windows, all_nlls,
                   engine_calls, parse_calls, cache, error, p_in>>

----------------------------------------------------------------------------
(* The pure functions on drawn inputs *)

\* _parse_logprobs(tokens, outputs, ctxlen)
ParseCall ==
    /\ op = "_parse_logprobs"
    /\ pc = "start"
    /\ ret' = _parse_logprobs(p_in.tokens, p_in.outputs, p_in.ctxlen)
    /\ pc' = IF ret'.raised THEN "raised" ELSE "done"
    /\ UNCHANGED <<op, data_parallel_size, batch_size, max_length, engine,
                   requests, chunks, reorder, res, stats, all_windows, all_nlls,
                   engine_calls, parse_calls, cache, error, p_in>>

\* the reasoning split of one response text
SplitCall ==
    /\ op = "split"
    /\ pc = "start"
    /\ ret' = SplitReasoning(p_in.text)
    /\ pc' = "done"
    /\ UNCHANGED <<op, data_parallel_size, batch_size, max_length, engine,
                   requests, chunks, reorder, res, stats, all_windows, all_nlls,
                   engine_calls, parse_calls, cache, error, p_in>>

\* the body of the first loop of loglikelihood_rolling for one request: its
\* windows
WindowsCall ==
    /\ op = "windows"
    /\ pc = "start"
    /\ ret' = RequestWindows(p_in.string, max_length)
    /\ pc' = "done"
    /\ UNCHANGED <<op, data_parallel_size, batch_size, max_length, engine,
                   requests, chunks, reorder, res, stats, all_windows, all_nlls,
                   engine_calls, parse_calls, cache, error, p_in>>

\* the body of the first loop over a chunk of _loglikelihood_tokens for one
\* element: inp and ctxlen
TruncateCall ==
    /\ op = "truncate"
    /\ pc = "start"
    /\ ret' = [inp |-> LLInput(p_in, max_length), ctxlen |-> LLCtxlen(p_in, max_length)]
    /\ pc' = "done"
    /\ UNCHANGED <<op, data_parallel_size, batch_size, max_length, engine,
                   requests, chunks, reorder, res, stats, all_windows, all_nlls,
                   engine_calls, parse_calls, cache, error, p_in>>

\* _model_generate(requests, generate=False): the engine calls it issues and
\* the outputs it returns
ModelGenerateCall ==
    /\ op = "_model_generate"
    /\ pc = "start"
    /\ engine_calls' = ModelGenerateCalls(data_parallel_size, p_in.requests)
    /\ ret' = _model_generate(engine, data_parallel_size, p_in.requests)
    /\ pc' = "done"
    /\ UNCHANGED <<op, data_parallel_size, batch_size, max_length, engine,
                   requests, chunks, reorder, res, stats, all_windows, all_nlls,
                   parse_calls, cache, error, p_in>>

----------------------------------------------------------------------------

Next ==
    \/ LLStart
    \/ LLChunk
    \/ LLReturn
    \/ RollStart
    \/ RollBatch
    \/ RollAggregate
    \/ GenStart
    \/ GenChunk
    \/ GenReturn
    \/ ParseCall
    \/ SplitCall
    \/ TruncateCall
    \/ WindowsCall
    \/ ModelGenerateCall

Spec == Init /\ [][Next]_vars

----------------------------------------------------------------------------
(* What each request of a call is owed, computed request by request,       *)
(* without batching or reordering                                          *)

\* the scoring answer owed to loglikelihood request i
OwedAnswer(i) ==
    LET x == EncodeRequest(requests[i])
        inp == LLInput(x, max_length)
    IN  _parse_logprobs(inp, EngineScore(engine, inp), LLCtxlen(x, max_length))

\* the engine response owed to generate_until request i
OwedResponse(i) == EngineChat(engine, Conversation(requests[i].ctx_data))

\* t is s without its leading and trailing whitespace
IsTrimOf(t, s) ==
    /\ t # <<>> => (t[1] # " " /\ t[Len(t)] # " ")
    /\ \E a \in 0..Len(s) :
          /\ a + Len(t) <= Len(s)
          /\ \A j \in 1..a : s[j] = " "
          /\ SubSeq(s, a + 1, a + Len(t)) = t
          /\ \A j \in (a + Len(t) + 1)..Len(s) : s[j] = " "

\* k is the 1-based position of the last occurrence of THINK in s
LastThinkAt(s, k) ==
    /\ OccursAt(s, THINK, k)
    /\ \A j \in 1..Len(s) : OccursAt(s, THINK, j) => j <= k

\* (final, reasoning) is the split of text s at its last THINK
SplitAtLast(s, final, reasoning) ==
    \E k \in 1..Len(s) :
        /\ LastThinkAt(s, k)
        /\ IsTrimOf(final, SubSeq(s, k + Len(THINK), Len(s)))
        /\ ~IsNone(reasoning)
        /\ IsTrimOf(reasoning.v, SubSeq(s, 1, k + Len(THINK) - 1))

\* number of entries of sequence q equal to x
Count(q, x) == Cardinality({k \in 1..Len(q) : q[k] = x})

\* q1 and q2 hold the same entries the same number of times
SameEntries(q1, q2) ==
    /\ Len(q1) = Len(q2)
    /\ \A k \in 1..Len(q1) : Count(q1, q1[k]) = Count(q2, q1[k])

----------------------------------------------------------------------------
(* C1 *)

\* The order loglikelihood keeps whenever it returns: one pair per request,
\* the i-th pair the answer owed to request i
LLReturnedInOrder ==
    (op = "loglikelihood" /\ pc = "done") =>
        /\ Len(ret) = Len(requests)
        /\ \A i \in 1..Len(requests) : ret[i] = Answer(OwedAnswer(i))

\* C1: loglikelihood preserves input order: for any request list and any
\* batch-size setting it returns exactly one (float, bool) pair per request,
\* the i-th pair being the one _parse_logprobs computes for the i-th request.
C1_LoglikelihoodReturnsInOrder ==
    op = "loglikelihood" =>
        /\ pc # "raised"
        /\ LLReturnedInOrder

----------------------------------------------------------------------------
(* C2 *)

\* The order generate_until keeps whenever it returns
GenReturnedInOrder ==
    (op = "generate_until" /\ pc = "done") =>
        /\ Len(ret.res) = Len(requests)
        /\ Len(ret.stats) = Len(requests)
        /\ \A i \in 1..Len(requests) :
              /\ ret.res[i] = SplitReasoning(OwedResponse(i).outputs[1].text).s
              /\ ret.stats[i] = GenStat(OwedResponse(i))

\* C2: generate_until restores the original request order for any request
\* list, lists of length 0 and 1 included: once every batch is processed it
\* returns, and the i-th text and the i-th metadata entry belong to the i-th
\* request.  (Request lists whose generation_kwargs are all mappings.)
C2_GenerateUntilRestoresOrder ==
    (op = "generate_until" /\ \A i \in 1..Len(requests) : requests[i].gen_kwargs.is_dict) =>
        /\ pc # "raised"
        /\ GenReturnedInOrder

----------------------------------------------------------------------------
(* C3 *)

\* the generation_kwargs of the batch of the k-th engine call of generate_until
CallGenKwargs(k) == requests[GenChunks(requests, batch_size)[k][1]].gen_kwargs

\* C3: in generate_until the stop strings handed to the engine in every
\* engine call contain the end-of-text string and every 'until' string of
\* the batch's generation_kwargs.
C3_StopHasEosAndUntil ==
    op = "generate_until" =>
        \A k \in 1..Len(engine_calls) :
            LET stop == engine_calls[k].sampling_params.stop
                until == CallGenKwargs(k).until
            IN  /\ ~IsNone(stop)
                /\ eos \in Range(stop.v)
                /\ (~IsNone(until)) => Range(until.v) \subseteq Range(stop.v)

----------------------------------------------------------------------------
(* C4 *)

\* the requests whose conversation is message m
RequestsOf(m) == {i \in 1..Len(requests) : Conversation(requests[i].ctx_data) = m}

\* C4: group isolation in generate_until: every batch, waiting or handed to
\* the engine, holds requests of one generation_kwargs only, and the sampling
\* parameters of an engine call are those of every request in the call.
C4_GroupIsolation ==
    op = "generate_until" =>
        /\ \A c \in 1..Len(chunks) : \A k \in 1..Len(chunks[c]) :
              requests[chunks[c][k]].gen_kwargs = requests[chunks[c][1]].gen_kwargs
        /\ \A c \in 1..Len(engine_calls) :
              \A m1 \in Range(engine_calls[c].messages),
                 m2 \in Range(engine_calls[c].messages) :
                  \A i \in RequestsOf(m1), j \in RequestsOf(m2) :
                      /\ requests[i].gen_kwargs = requests[j].gen_kwargs
                      /\ engine_calls[c].sampling_params.temperature
                             = modify_gen_kwargs(requests[i].gen_kwargs).temperature

\* an engine call served two requests while a request of another group of
\* mappings stood between them in the input
C4_Witness ==
    /\ op = "generate_until"
    /\ \E c \in 1..Len(engine_calls) : Len(engine_calls[c].messages) >= 2
    /\ Len(requests) >= 3
    /\ requests[1].gen_kwargs = requests[3].gen_kwargs
    /\ requests[1].gen_kwargs # requests[2].gen_kwargs
    /\ \A i \in 1..Len(requests) : requests[i].gen_kwargs.is_dict

----------------------------------------------------------------------------
(* C5 *)

\* C5: every call of _parse_logprobs made while serving loglikelihood or
\* loglikelihood_rolling receives ctxlen >= 1.
C5_CtxlenAtLeastOne ==
    \A k \in 1..Len(parse_calls) : parse_calls[k].ctxlen >= 1

----------------------------------------------------------------------------
(* C6 *)

\* the log-probability the distribution at 1-based position i gives to the
\* token realized there
RealizedLogprob(tokens, dicts, i) ==
    LET S == {k \in 1..Len(dicts[i].items) : dicts[i].items[k].tok = tokens[i]}
    IN  dicts[i].items[CHOOSE k \in S : TRUE].lp

\* sum of RealizedLogprob over the 1-based positions lo..hi
RECURSIVE RealizedSum(_, _, _, _)
RealizedSum(tokens, dicts, lo, hi) ==
    IF lo > hi THEN 0
    ELSE RealizedSum(tokens, dicts, lo, hi - 1) + RealizedLogprob(tokens, dicts, hi)

\* C6: _parse_logprobs returns continuation_logprob equal to the sum, over
\* the positions from context_len to the end of the input (0-based; 1-based
\* ctxlen + 1 .. len), of the log-probability the distribution of the position
\* gives to the realized token; the distributions before context_len do not
\* affect the result.
C6_ContinuationLogprobIsSum ==
    (op = "_parse_logprobs" /\ pc # "start") =>
        /\ pc = "done"
        /\ ret.continuation_logprobs =
               RealizedSum(p_in.tokens, p_in.outputs.prompt_logprobs,
                           p_in.ctxlen + 1, Len(p_in.tokens))
        /\ \A p \in 1..p_in.ctxlen :
              \A d \in DistsFor(1) \cup DistsFor(2) \cup {None} :
                  _parse_logprobs(p_in.tokens,
                      [prompt_logprobs |->
                          [p_in.outputs.prompt_logprobs EXCEPT ![p] = d]],
                      p_in.ctxlen).continuation_logprobs
                  = ret.continuation_logprobs

\* a call summed two positions behind a context of one token, at one of
\* which another candidate outranks the realized token
C6_Witness ==
    /\ op = "_parse_logprobs"
    /\ pc = "done"
    /\ p_in.ctxlen = 1
    /\ Len(p_in.tokens) = 3
    /\ \E i \in 2..3 :
          TopToken(p_in.outputs.prompt_logprobs[i]) # p_in.tokens[i]
    /\ ret.continuation_logprobs < -2

----------------------------------------------------------------------------
(* C7 *)

\* at 1-based position i the realized token has a higher log-probability
\* than every other candidate
RealizedIsTop(tokens, dicts, i) ==
    \A k \in 1..Len(dicts[i].items) :
        dicts[i].items[k].tok # tokens[i] =>
            dicts[i].items[k].lp < RealizedLogprob(tokens, dicts, i)

\* at 1-based position i another candidate has a higher log-probability
\* than the realized token
RealizedIsBeaten(tokens, dicts, i) ==
    \E k \in 1..Len(dicts[i].items) :
        dicts[i].items[k].lp > RealizedLogprob(tokens, dicts, i)

\* C7: is_greedy is true if and only if, at every position from context_len
\* to the end, the highest-log-probability candidate is the realized token;
\* changing the argmax of one such position away from the realized token
\* makes is_greedy false.  (Where two candidates tie for the highest
\* log-probability there is no single highest candidate and nothing is
\* claimed.)
C7_IsGreedyIffArgmax ==
    (op = "_parse_logprobs" /\ pc = "done") =>
        LET tokens == p_in.tokens
            dicts == p_in.outputs.prompt_logprobs
            positions == (p_in.ctxlen + 1)..Len(tokens)
        IN  /\ (\A i \in positions : RealizedIsTop(tokens, dicts, i))
                   => ret.is_greedy
            /\ (\E i \in positions : RealizedIsBeaten(tokens, dicts, i))
                   => ~ret.is_greedy
            /\ \A i \in positions : \A d \in DistsFor(tokens[i]) :
                  RealizedIsBeaten(tokens, [dicts EXCEPT ![i] = d], i) =>
                      ~_parse_logprobs(tokens,
                           [prompt_logprobs |-> [dicts EXCEPT ![i] = d]],
                           p_in.ctxlen).is_greedy

\* a greedy match over two positions, and a mismatch only at the last one
C7_Witness ==
    /\ op = "_parse_logprobs"
    /\ pc = "done"
    /\ p_in.ctxlen = 1
    /\ Len(p_in.tokens) = 3
    /\ RealizedIsTop(p_in.tokens, p_in.outputs.prompt_logprobs, 2)
    /\ RealizedIsBeaten(p_in.tokens, p_in.outputs.prompt_logprobs, 3)
    /\ ~ret.is_greedy

----------------------------------------------------------------------------
(* C8 *)

\* C8: when the decoded text contains the delimiter, the returned text is
\* everything after its last occurrence, trimmed, and the 'reasoning' entry
\* is everything up to and including that occurrence, trimmed; the metadata
\* always carries the prompt of the request.
C8_ReasoningSplitAtLast ==
    /\ (op = "split" /\ pc = "done" /\ Contains(p_in.text, THINK)) =>
           SplitAtLast(p_in.text, ret.s, ret.reasoning)
    /\ (op = "generate_until" /\ pc = "done") =>
           \A i \in 1..Len(requests) :
               /\ ret.stats[i].prompt = Conversation(requests[i].ctx_data)
               /\ Contains(OwedResponse(i).outputs[1].text, THINK) =>
                      SplitAtLast(OwedResponse(i).outputs[1].text,
                                  ret.res[i], ret.stats[i].reasoning)

\* a text with two delimiters was split, leaving a final text that had
\* whitespace around it
C8_Witness ==
    /\ op = "split"
    /\ pc = "done"
    /\ \E j, k \in 1..Len(p_in.text) :
          j < k /\ OccursAt(p_in.text, THINK, j) /\ OccursAt(p_in.text, THINK, k)
    /\ ret.s # <<>>
    /\ p_in.text[Len(p_in.text)] = " "

----------------------------------------------------------------------------
(* C9 *)

\* C9: when the decoded text contains no delimiter, there is no 'reasoning'
\* entry and the returned text is the trimmed original text.
C9_NoDelimiterTrimmed ==
    /\ (op = "split" /\ pc = "done" /\ ~Contains(p_in.text, THINK)) =>
           /\ IsNone(ret.reasoning)
           /\ IsTrimOf(ret.s, p_in.text)
    /\ (op = "generate_until" /\ pc = "done") =>
           \A i \in 1..Len(requests) :
               ~Contains(OwedResponse(i).outputs[1].text, THINK) =>
                   /\ IsNone(ret.stats[i].reasoning)
                   /\ IsTrimOf(ret.res[i], OwedResponse(i).outputs[1].text)

----------------------------------------------------------------------------
(* C10 *)

\* the cache writes owed by a loglikelihood call
OwedLLWrites ==
    [i \in 1..Len(requests) |->
        [name |-> "loglikelihood",
         key |-> [none |-> FALSE, context |-> requests[i].context,
                  continuation |-> requests[i].continuation],
         value |-> Answer(OwedAnswer(i))]]

\* the sum of the answers of the windows of rolling request i
RECURSIVE WindowSum(_, _)
WindowSum(nlls, i) ==
    IF nlls = <<>> THEN 0
    ELSE (IF Head(nlls).req_idx = i THEN Head(nlls).nll.logprob ELSE 0)
         + WindowSum(Tail(nlls), i)

\* C10: across a loglikelihood or loglikelihood_rolling call that completes,
\* add_partial is called exactly once per harness request, with the result of
\* that request; the window sub-requests of a rolling call never cause a
\* 'loglikelihood' write, and every rolling request is written once, under
\* 'loglikelihood_rolling', only after all windows have been aggregated.
C10_CacheWrites ==
    /\ (op = "loglikelihood" /\ pc = "done") => SameEntries(cache, OwedLLWrites)
    /\ op = "loglikelihood_rolling" =>
           /\ \A k \in 1..Len(cache) : cache[k].name = "loglikelihood_rolling"
           /\ cache # <<>> => (pc = "done" /\ Len(all_nlls) = Len(all_windows))
           /\ pc = "done" =>
                  /\ Len(cache) = Len(requests)
                  /\ \A i \in 1..Len(requests) :
                        cache[i] = [name |-> "loglikelihood_rolling",
                                    key |-> [none |-> FALSE, string |-> requests[i]],
                                    value |-> WindowSum(all_nlls, i)]

\* a rolling call completed in which a request had several windows and the
\* windows were scored in more than one engine call
C10_Witness ==
    /\ op = "loglikelihood_rolling"
    /\ pc = "done"
    /\ Len(requests) >= 2
    /\ Len(all_windows) > Len(requests)
    /\ Len(engine_calls) >= 2
    /\ Len(cache) = Len(requests)

----------------------------------------------------------------------------
\* C11: replica interleave round-trip.  With N > 1 replicas _model_generate
\* hands request i (0-based) to replica i mod N as that replica's
\* (i div N)-th request, the partitions hold L requests in all, and the merged
\* list holds at position i the output of request i; on the scoring path the
\* outputs are matched to their inputs before the results are restored to
\* request order: every _parse_logprobs call receives the output of its own
\* tokens, and res holds the answers in the order the batches were processed.
C11_ReplicaRoundTrip ==
    /\ (op = "_model_generate" /\ pc = "done" /\ data_parallel_size > 1) =>
           LET N == data_parallel_size
               L == Len(p_in.requests)
           IN  /\ Len(engine_calls) = N
               /\ SeqSum([k \in 1..N |-> Len(engine_calls[k])]) = L
               /\ \A i \in 1..L :
                      LET k == ((i - 1) % N) + 1
                          j == ((i - 1) \div N) + 1
                      IN  /\ j <= Len(engine_calls[k])
                          /\ engine_calls[k][j] = p_in.requests[i]
               /\ Len(ret) = L
               /\ \A i \in 1..L : ret[i] = EngineScore(engine, p_in.requests[i])
    /\ (op \in {"loglikelihood", "loglikelihood_rolling"} /\ data_parallel_size > 1) =>
           \A c \in 1..Len(parse_calls) :
               parse_calls[c].outputs = EngineScore(engine, parse_calls[c].tokens)
    /\ (op = "loglikelihood" /\ data_parallel_size > 1 /\ pc \in {"batches", "done"}) =>
           /\ \A k \in 1..Len(res) : res[k] = Answer(OwedAnswer(reorder[k]))
           /\ pc = "done" => \A i \in 1..Len(requests) : ret[i] = Answer(OwedAnswer(i))

\* seven requests, not all alike, went through three replicas
C11_Witness ==
    /\ op = "_model_generate"
    /\ pc = "done"
    /\ data_parallel_size = 3
    /\ Len(p_in.requests) = 7
    /\ p_in.requests[1] # p_in.requests[2]
    /\ p_in.requests[4] # p_in.requests[7]
    /\ Len(ret) = 7

----------------------------------------------------------------------------
\* the windows w of one request cover its tokens: the predicted regions laid
\* end to end are the tokens (each token predicted once), there are
\* ceil(L / M) windows with M = ml - 1, the first window has the prefix token
\* as its only context, and every later window has as context at least one
\* token, the tokens right before its first predicted token
RECURSIVE PredictedBefore(_, _)
PredictedBefore(w, k) ==
    IF k <= 1 THEN 0 ELSE PredictedBefore(w, k - 1) + Len(w[k - 1].cont)

WindowsCover(tokens, ml, w) ==
    LET L == Len(tokens)
        M == ml - 1
    IN  /\ Flatten([k \in 1..Len(w) |-> w[k].cont]) = tokens
        /\ \A k \in 1..Len(w) : Len(w[k].cont) >= 1
        /\ Len(w) = (L + M - 1) \div M
        /\ Len(w) >= 1 => w[1].ctx = <<prefix_token_id>>
        /\ \A k \in 2..Len(w) :
               LET start == PredictedBefore(w, k)
               IN  /\ Len(w[k].ctx) >= 1
                   /\ Len(w[k].ctx) <= start
                   /\ w[k].ctx = SubSeq(tokens, start - Len(w[k].ctx) + 1, start)

\* the windows of request i among all_windows, in order
WindowsOfRequest(i) ==
    LET mine == SelectSeq(all_windows, LAMBDA p : p.req_idx = i)
    IN  [k \in 1..Len(mine) |-> mine[k].window]

\* C12: window coverage in loglikelihood_rolling.  For every request, of L
\* tokens, with M = max_length - 1: the predicted regions of its windows
\* partition its tokens, it has ceil(L / M) windows, the first window's only
\* context is the prefix token and every later window has at least one
\* context token before its first predicted token.
C12_WindowCoverage ==
    /\ (op = "windows" /\ pc = "done") =>
           WindowsCover(tok_encode(p_in.string), max_length, ret)
    /\ (op = "loglikelihood_rolling" /\ pc \in {"batches", "done"}) =>
           \A i \in 1..Len(requests) :
               WindowsCover(tok_encode(requests[i]), max_length, WindowsOfRequest(i))

\* five tokens cut with M = 2: three windows, the last one shorter
C12_Witness ==
    /\ op = "windows"
    /\ pc = "done"
    /\ max_length = 3
    /\ Len(p_in.string) = 5
    /\ Len(ret) = 3
    /\ Len(ret[3].cont) = 1
    /\ Len(ret[3].ctx) = 2

----------------------------------------------------------------------------
\* C13: a generate_until call whose request list holds generation_kwargs that
\* are not a mapping never returns a result; no engine call carries a request
\* with such kwargs; while the call runs a batch with such kwargs is still
\* waiting; and when the call has failed, it failed with ValueError at the
\* batch with such kwargs, the engine having been called for the batches
\* before it only.
C13_NonMappingKwargsRaise ==
    (op = "generate_until"
     /\ \E i \in 1..Len(requests) : ~requests[i].gen_kwargs.is_dict) =>
        /\ pc # "done"
        /\ ret = None
        /\ \A c \in 1..Len(engine_calls) :
              \A m \in Range(engine_calls[c].messages) :
                  \A i \in RequestsOf(m) : requests[i].gen_kwargs.is_dict
        /\ pc = "batches" =>
              \E c \in 1..Len(chunks) : ~requests[chunks[c][1]].gen_kwargs.is_dict
        /\ pc = "raised" =>
              /\ error = "ValueError"
              /\ chunks # <<>>
              /\ ~requests[Head(chunks)[1]].gen_kwargs.is_dict
              /\ Len(engine_calls)
                     = Len(GenChunks(requests, batch_size)) - Len(chunks)

\* the call failed at a batch of kwargs that are not a mapping, after the
\* engine had served an earlier batch
C13_Witness ==
    /\ op = "generate_until"
    /\ pc = "raised"
    /\ error = "ValueError"
    /\ Len(requests) >= 2
    /\ chunks # <<>>
    /\ ~requests[Head(chunks)[1]].gen_kwargs.is_dict
    /\ Len(engine_calls) >= 1

----------------------------------------------------------------------------
\* the continuation log-probability owed to one window, scored on its own
OwedWindowLogprob(w) ==
    LET inp == LLInput(w, max_length)
    IN  _parse_logprobs(inp, EngineScore(engine, inp),
                        LLCtxlen(w, max_length)).continuation_logprobs

\* the total owed to rolling request i: the sum over its windows
OwedRolling(i) ==
    LET w == RequestWindows(requests[i], max_length)
    IN  SeqSum([k \in 1..Len(w) |-> OwedWindowLogprob(w[k])])

\* C14: loglikelihood_rolling on a non-empty request list, under every batch
\* size, does not fail, and returns one value per request, in input order: the
\* i-th value is the sum of the continuation log-probabilities of the windows
\* of request i.
C14_RollingAggregation ==
    (op = "loglikelihood_rolling" /\ Len(requests) >= 1) =>
        /\ pc # "raised"
        /\ pc = "done" =>
              /\ Len(ret) = Len(requests)
              /\ \A i \in 1..Len(requests) : ret[i] = OwedRolling(i)

\* batches of two windows: the first batch mixed the windows of two requests,
\* the windows of the second request were split across two batches, and the
\* two requests got different totals
C14_Witness ==
    /\ op = "loglikelihood_rolling"
    /\ pc = "done"
    /\ ~batch_size.auto
    /\ batch_size.n = 2
    /\ Len(all_windows) >= 3
    /\ all_windows[1].req_idx # all_windows[2].req_idx
    /\ all_windows[2].req_idx = all_windows[3].req_idx
    /\ Len(ret) = Len(requests)
    /\ ret[1] # ret[2]

----------------------------------------------------------------------------
\* C15: generation length bound.  In every engine call of generate_until the
\* number of new tokens asked of the engine (max_tokens of the sampling
\* parameters) is the 'max_gen_toks' of the batch's generation_kwargs when
\* they hold one, and self.max_gen_toks otherwise.
C15_MaxTokensIsMaxGenToks ==
    op = "generate_until" =>
        \A k \in 1..Len(engine_calls) :
            engine_calls[k].sampling_params.max_tokens
                = IF ~IsNone(CallGenKwargs(k).max_gen_toks)
                  THEN CallGenKwargs(k).max_gen_toks.v
                  ELSE max_gen_toks

----------------------------------------------------------------------------
\* the sequence sent for the request x and its ctxlen agree: sent is no longer
\* than ml, and if the continuation fits in ml tokens then ctxlen counts the
\* context tokens left in sent, which are the last ones of the context, and
\* sent[ctxlen:] is the whole continuation
TruncationConsistent(x, ml, sent, ctxlen) ==
    /\ Len(sent) <= ml
    /\ Len(x.cont) <= ml =>
           /\ ctxlen >= 0
           /\ ctxlen = Len(sent) - Len(x.cont)
           /\ ctxlen <= Len(x.ctx)
           /\ SubSeq(sent, 1, ctxlen)
                  = SubSeq(x.ctx, Len(x.ctx) - ctxlen + 1, Len(x.ctx))
           /\ SubSeq(sent, ctxlen + 1, Len(sent)) = x.cont

\* C16: scoring-input truncation is consistent with ctxlen.  For every
\* request of _loglikelihood_tokens the sequence sent to the engine has at
\* most max_length tokens, and when the continuation has at most max_length
\* tokens ctxlen is the number of context tokens left in it and sent[ctxlen:]
\* is the whole continuation; this holds of every sequence handed to the
\* engine and of every _parse_logprobs call of a loglikelihood call.
C16_TruncationConsistent ==
    /\ (op = "truncate" /\ pc = "done") =>
           TruncationConsistent(p_in, max_length, ret.inp, ret.ctxlen)
    /\ op \in {"loglikelihood", "loglikelihood_rolling"} =>
           \A c \in 1..Len(engine_calls) : \A k \in 1..Len(engine_calls[c]) :
               Len(engine_calls[c][k]) <= max_length
    /\ op = "loglikelihood" =>
           \A c \in 1..Len(parse_calls) :
               TruncationConsistent(NewReqs(requests)[parse_calls[c].pos], max_length,
                                    parse_calls[c].tokens, parse_calls[c].ctxlen)

\* a context of three tokens lost some but not all of them to the truncation
C16_Witness ==
    /\ op = "truncate"
    /\ pc = "done"
    /\ Len(p_in.ctx) = 3
    /\ Len(p_in.cont) <= max_length
    /\ ret.ctxlen >= 1
    /\ ret.ctxlen < Len(p_in.ctx)
    /\ Len(ret.inp) = max_length

----------------------------------------------------------------------------
\* C17: loglikelihood_rolling on an empty request list, under every batch
\* size setting, does not fail, calls neither the engine nor the cache sink,
\* and returns the empty list.
C17_RollingEmptyReturnsEmpty ==
    (op = "loglikelihood_rolling" /\ Len(requests) = 0) =>
        /\ pc # "raised"
        /\ error = ""
        /\ engine_calls = <<>>
        /\ cache = <<>>
        /\ pc = "done" => ret = <<>>

====
